---- MODULE Spec2Model ----
(***************************************************************************)
(* Model of elo-calculator/elo_calculator.py: the generalized multiplayer  *)
(* Elo update (winning_probability, final_scores, calculate_new_ratings),  *)
(* the History tracker and the driver loop of main().                      *)
(*                                                                         *)
(* Numbers.  The program computes in Python floats.  The model uses fixed  *)
(* point integers: a rating is held in units of 1/RS rating point, a       *)
(* probability in units of 1/PS.  10 ** x is computed as exp(x * ln 10)    *)
(* by its Taylor series in the same fixed point.  final_scores returns the *)
(* exact fraction <<num, den>>.  Values that are exact in floats for the   *)
(* cases examined (0.5, +25, -25, 1400) are exact in the model as well.    *)
(*                                                                         *)
(* Objects.  The module level dict `ratings` is mutated in place by        *)
(* calculate_new_ratings.  History.__init__ stores a reference to it, so   *)
(* History._ratings and `ratings` are the same object (aliased) until the  *)
(* setter replaces History._ratings by the fresh dict of reset_ratings.    *)
(***************************************************************************)
EXTENDS Integers, Sequences, FiniteSets, TLC

VARIABLES
    pc,            \* position in main(): "start", "loop", "assign", "crashed", "done"
    ratings,       \* the module level dict `ratings`
    self_ratings,  \* History._ratings
    aliased,       \* TRUE iff History._ratings is the very object `ratings`
    history,       \* History.history, player -> sequence of snapshots
    match,         \* loop variable of main(): the match being processed
    ret,           \* value returned by calculate_new_ratings, handed to the setter
    n,             \* number of matches fully processed (setter calls completed)
    error,         \* exception that ended the program, "" if none
    fs             \* one call of final_scores: arguments and returned value

vars == <<pc, ratings, self_ratings, aliased, history, match, ret, n, error, fs>>

----------------------------------------------------------------------------
(* Bounds of the model *)

MaxMatches == 2
MaxGroups == 3
MaxPositions == 5
MaxAlpha == 5

Names == {"A", "B", "C"}

(* Program constants *)
DIFF == 700
K == 50
ALPHA == 4
FLOOR == 1400

(* Fixed point scales standing for the float type *)
RS == 100
PS == 10000
LN10H == 11513        \* ln(10) / 2 in units of 1/PS

InitialRatings == {1390 * RS, 1410 * RS, 1500 * RS}

Max(a, b) == IF a >= b THEN a ELSE b
Abs(a) == IF a >= 0 THEN a ELSE -a

NoMatch == << >>
NoCall == [pos |-> 0, no_pos |-> 0, alpha |-> 0, out |-> << >>]
EmptyDict == [x \in {} |-> 0]

----------------------------------------------------------------------------
(* Inputs: a match is a sequence of non-empty, pairwise disjoint groups *)

Groups == (SUBSET Names) \ {{}}

Matches ==
    UNION { { m \in [1..k -> Groups] :
                \A i, j \in 1..k : i # j => m[i] \cap m[j] = {} }
            : k \in 0..MaxGroups }

Participants(m) == UNION { m[i] : i \in 1..Len(m) }

PosOf(m, name) == CHOOSE i \in 1..Len(m) : name \in m[i]

----------------------------------------------------------------------------
(* float arithmetic of line 63: 10 ** (d / diff), d in units of 1/RS *)

RECURSIVE ExpSeries(_, _, _)
ExpSeries(y, k, term) ==
    IF k > 12 THEN 0
    ELSE term + ExpSeries(y, k + 1, (term * y) \div (k * PS))

Pow10(d, diff) ==
    LET y == (Abs(d) * LN10H) \div ((RS \div 2) * diff)
        e == ExpSeries(y, 1, PS)
    IN  IF d >= 0 THEN e ELSE (PS * PS) \div e

\* 1 / (1 + 10 ** ((rating2 - rating1) / diff))
PairExpect(rating1, rating2, diff) ==
    (PS * PS) \div (PS + Pow10(rating2 - rating1, diff))

RECURSIVE SumOver(_, _, _, _)
SumOver(S, r, player1, diff) ==
    IF S = {} THEN 0
    ELSE LET player2 == CHOOSE x \in S : TRUE
         IN  PairExpect(r[player1], r[player2], diff)
               + SumOver(S \ {player2}, r, player1, diff)

----------------------------------------------------------------------------
(* winning_probability: the returned dict, or the exception it raises.     *)
(* den = N * (N - 1) / 2 is computed inside the loop over the players, so  *)
(* num / den raises ZeroDivisionError for N = 1 and the loop body never    *)
(* runs for N = 0.                                                         *)

winning_probability_nohalf(r, diff) ==
    LET N == Cardinality(DOMAIN r)
    IN  IF N # 0 /\ N * (N - 1) = 0
        THEN [raises |-> "ZeroDivisionError", rv |-> EmptyDict]
        ELSE [raises |-> "",
              rv |-> [player1 \in DOMAIN r |->
                        SumOver(DOMAIN r \ {player1}, r, player1, diff)
                            \div (N * (N - 1))]]

winning_probability(r, diff) ==
    LET N == Cardinality(DOMAIN r)
    IN  IF N # 0 /\ N * (N - 1) = 0
        THEN [raises |-> "ZeroDivisionError", rv |-> EmptyDict]
        ELSE [raises |-> "",
              rv |-> [player1 \in DOMAIN r |->
                        (2 * SumOver(DOMAIN r \ {player1}, r, player1, diff))
                            \div (N * (N - 1))]]

----------------------------------------------------------------------------
(* final_scores: the exact fraction <<num, den>> of the returned float *)

RECURSIVE FsDen(_, _, _)
FsDen(i, no_pos, alpha) ==
    IF i > no_pos THEN 0
    ELSE (alpha ^ (no_pos - i) - 1) + FsDen(i + 1, no_pos, alpha)

final_scores_topden(pos, no_pos, alpha) ==
    IF no_pos = 1 THEN <<1, 2>>
    ELSE <<alpha ^ (no_pos - pos) - 1, alpha ^ (no_pos - 1) - 1>>

final_scores(pos, no_pos, alpha) ==
    IF no_pos = 1 THEN <<1, 2>>
    ELSE <<alpha ^ (no_pos - pos) - 1, FsDen(1, no_pos, alpha)>>

----------------------------------------------------------------------------
(* calculate_new_ratings.  The result names the exception raised (if any), *)
(* the contents of the dict passed as `ratings` when the call ends, and    *)
(* the returned value.                                                     *)

\* ratings[name] += award * (len(players) - 1) * (player_scores[name] - win_chance[name])
Updated(r, m, award, win_chance) ==
    LET players == Participants(m)
        M == Cardinality(players)
    IN  [p \in DOMAIN r |->
            IF p \in players
            THEN LET sc == final_scores(PosOf(m, p), Len(m), ALPHA)
                 IN  r[p] + (award * (M - 1) * (sc[1] * PS - win_chance[p] * sc[2]))
                              \div (sc[2] * (PS \div RS))
            ELSE r[p]]

calculate_new_ratings_partial(r, m, award) ==
    LET players == Participants(m)
        known == players \cap DOMAIN r
        player_ratings == [name \in known |-> r[name]]
        wp == winning_probability(player_ratings, DIFF)
    IN  IF wp.raises # ""
        THEN [raises |-> wp.raises, ratings |-> r, rv |-> r]
        ELSE LET new == [p \in DOMAIN r |->
                           IF p \in known
                           THEN LET sc == final_scores(PosOf(m, p), Len(m), ALPHA)
                                IN  r[p] + (award * (Cardinality(known) - 1)
                                              * (sc[1] * PS - wp.rv[p] * sc[2]))
                                             \div (sc[2] * (PS \div RS))
                           ELSE r[p]]
             IN  IF known # players
                 THEN [raises |-> "KeyError", ratings |-> new, rv |-> new]
                 ELSE [raises |-> "", ratings |-> new, rv |-> new]

calculate_new_ratings_pure(r, m, award) ==
    LET players == Participants(m)
    IN  IF \E name \in players : name \notin DOMAIN r
        THEN [raises |-> "KeyError", ratings |-> r, rv |-> r]
        ELSE LET player_ratings == [name \in players |-> r[name]]
                 wp == winning_probability(player_ratings, DIFF)
             IN  IF wp.raises # ""
                 THEN [raises |-> wp.raises, ratings |-> r, rv |-> r]
                 ELSE [raises |-> "", ratings |-> r,
                       rv |-> Updated(r, m, award, wp.rv)]

calculate_new_ratings(r, m, award) ==
    LET players == Participants(m)
    IN  IF \E name \in players : name \notin DOMAIN r
        THEN [raises |-> "KeyError", ratings |-> r, rv |-> r]
        ELSE LET player_ratings == [name \in players |-> r[name]]
                 wp == winning_probability(player_ratings, DIFF)
             IN  IF wp.raises # ""
                 THEN [raises |-> wp.raises, ratings |-> r, rv |-> r]
                 ELSE LET new == Updated(r, m, award, wp.rv)
                      IN  [raises |-> "", ratings |-> new, rv |-> new]

----------------------------------------------------------------------------
(* class History *)

reset_ratings_noclamp(r) == r

reset_ratings(r) == [k \in DOMAIN r |-> Max(FLOOR * RS, r[k])]

update_history_changed(h, sr) ==
    [k \in DOMAIN h \cup DOMAIN sr |->
        IF k \in DOMAIN sr
        THEN IF k \in DOMAIN h
             THEN IF h[k][Len(h[k])] # sr[k] THEN Append(h[k], sr[k]) ELSE h[k]
             ELSE <<sr[k]>>
        ELSE h[k]]

update_history(h, sr) ==
    [k \in DOMAIN h \cup DOMAIN sr |->
        IF k \in DOMAIN sr
        THEN Append(IF k \in DOMAIN h THEN h[k] ELSE << >>, sr[k])
        ELSE h[k]]

----------------------------------------------------------------------------
(* main() *)

Init ==
    /\ pc = "start"
    /\ ratings \in UNION { [D -> InitialRatings] : D \in {{"A", "B"}, Names} }
    \* the players are interchangeable: initial ratings taken in name order
    /\ ratings["A"] <= ratings["B"]
    /\ "C" \in DOMAIN ratings => ratings["B"] <= ratings["C"]
    /\ self_ratings = EmptyDict
    /\ aliased = FALSE
    /\ history = EmptyDict
    /\ match = NoMatch
    /\ ret = EmptyDict
    /\ n = 0
    /\ error = ""
    /\ fs = NoCall

\* history = History(ratings)
Construct ==
    /\ pc = "start"
    /\ self_ratings' = ratings
    /\ aliased' = TRUE
    /\ history' = update_history(EmptyDict, ratings)
    /\ pc' = "loop"
    /\ UNCHANGED <<ratings, match, ret, n, error, fs>>

\* for match in matches: ... calculate_new_ratings(ratings, match)
CalculateNewRatings(m) ==
    /\ pc = "loop"
    /\ n < MaxMatches
    /\ match' = m
    /\ LET c == calculate_new_ratings(ratings, m, K)
       IN  /\ ratings' = c.ratings
           /\ self_ratings' = IF aliased THEN c.ratings ELSE self_ratings
           /\ IF c.raises # ""
              THEN /\ pc' = "crashed"
                   /\ error' = c.raises
                   /\ ret' = ret
              ELSE /\ pc' = "assign"
                   /\ error' = error
                   /\ ret' = c.rv
    /\ UNCHANGED <<aliased, history, n, fs>>

\* history.ratings = <returned value>
SetRatings ==
    /\ pc = "assign"
    /\ self_ratings' = reset_ratings(ret)
    /\ aliased' = FALSE
    /\ history' = update_history(history, self_ratings')
    /\ n' = n + 1
    /\ pc' = "loop"
    /\ UNCHANGED <<ratings, match, ret, error, fs>>

\* the match list is exhausted: plot_hist(history)
Finish ==
    /\ pc = "loop"
    /\ pc' = "done"
    /\ UNCHANGED <<ratings, self_ratings, aliased, history, match, ret, n, error, fs>>

Next ==
    \/ Construct
    \/ \E m \in Matches : CalculateNewRatings(m)
    \/ SetRatings
    \/ Finish

Spec == Init /\ [][Next]_vars

----------------------------------------------------------------------------
(* final_scores called on its own, over all positions and alphas > 1 *)

InitFS ==
    /\ pc = "fs_call"
    /\ fs \in { [pos |-> p, no_pos |-> t, alpha |-> a, out |-> << >>] :
                  p \in 1..MaxPositions, t \in 1..MaxPositions, a \in 2..MaxAlpha }
    /\ fs.pos <= fs.no_pos
    /\ ratings = EmptyDict
    /\ self_ratings = EmptyDict
    /\ aliased = FALSE
    /\ history = EmptyDict
    /\ match = NoMatch
    /\ ret = EmptyDict
    /\ n = 0
    /\ error = ""

FinalScoresCall ==
    /\ pc = "fs_call"
    /\ fs' = [fs EXCEPT !.out = final_scores(fs.pos, fs.no_pos, fs.alpha)]
    /\ pc' = "fs_ret"
    /\ UNCHANGED <<ratings, self_ratings, aliased, history, match, ret, n, error>>

NextFS == FinalScoresCall

SpecFS == InitFS /\ [][NextFS]_vars

----------------------------------------------------------------------------
(* Properties *)

Running == pc \in {"loop", "assign", "crashed", "done"}

\* the step that runs calculate_new_ratings(ratings, match') in main()
CallStep == pc = "loop" /\ pc' \in {"assign", "crashed"}

\* C1: once at least one match has been recorded through the ratings
\* setter, every value of the tracker's current ratings is >= 1400, also
\* for a player whose proposed (pre-clamp) value is below 1400.
C1_FloorAfterUpdate ==
    n >= 1 => \A p \in DOMAIN self_ratings : self_ratings[p] >= FLOOR * RS

C1_Witness ==
    /\ pc = "loop"
    /\ n >= 1
    /\ \E p \in Participants(match) :
          /\ history[p][1] >= FLOOR * RS
          /\ ret[p] < FLOOR * RS
          /\ self_ratings[p] = FLOOR * RS

\* C2: right after construction the current rating of every player and the
\* value recorded as snapshot 0 are at least 1400 (initial ratings below the
\* floor are clamped to it).
C2_ConstructClamps ==
    Running =>
        \A p \in DOMAIN history :
            /\ history[p][1] >= FLOOR * RS
            /\ (pc = "loop" /\ n = 0) => self_ratings[p] >= FLOOR * RS

\* C3: after construction and n recorded matches every registered player has
\* a history of exactly n + 1 snapshots, whether or not the player took part
\* in the matches.
C3_HistoryLength ==
    Running =>
        /\ DOMAIN history = DOMAIN ratings
        /\ \A p \in DOMAIN history : Len(history[p]) = n + 1

C3_Witness ==
    /\ pc = "loop"
    /\ n >= 2
    /\ Participants(match) # {}
    /\ \E p \in DOMAIN ratings :
          /\ p \notin Participants(match)
          /\ Len(history[p]) = n + 1
          /\ history[p][n] = history[p][n + 1]

\* C4: the update of match k+1 is computed from the tracker's clamped
\* current ratings after match k, never from an unclamped value.  (Stated
\* for runs whose initial ratings are all at least 1400, so that the only
\* values below the floor are results of earlier matches.)
C4_ReadsClamped ==
    [][(/\ pc = "loop" /\ pc' = "assign" /\ n >= 1
        /\ \A p \in DOMAIN history : history[p][1] >= FLOOR * RS) =>
          \A p \in Participants(match') :
              ret'[p] = calculate_new_ratings(self_ratings, match', K).rv[p]]_vars

\* C5: a match naming a player absent from the ratings mapping makes the
\* update fail with an error, and no rating is changed by the failed call.
C5_UnknownPlayerRejected ==
    [][(CallStep /\ ~(Participants(match') \subseteq DOMAIN ratings)) =>
          /\ pc' = "crashed"
          /\ error' = "KeyError"
          /\ ratings' = ratings
          /\ self_ratings' = self_ratings
          /\ history' = history]_vars

C5_Witness ==
    /\ pc = "crashed"
    /\ error = "KeyError"
    /\ Len(match) >= 2
    /\ match[1] \subseteq DOMAIN ratings
    /\ Cardinality(Participants(match) \cap DOMAIN ratings) >= 2

\* C6 (as stated): calculate_new_ratings leaves the mapping passed to it
\* unchanged; the new ratings exist only in the returned value.
C6_NoSideEffect ==
    [][(pc = "loop" /\ pc' = "assign") => ratings' = ratings]_vars

\* C6 (amended): calculate_new_ratings updates the mapping passed to it in
\* place: when it returns, that mapping holds the new pre-clamp ratings, equal
\* to the returned value, and only the match participants' entries changed.
C6_MutatesInPlace ==
    [][(pc = "loop" /\ pc' = "assign") =>
          /\ ret' = ratings'
          /\ \A p \in DOMAIN ratings \ Participants(match') :
                ratings'[p] = ratings[p]]_vars

C6_Witness ==
    /\ pc = "assign"
    /\ n = 0
    /\ ret = ratings
    /\ \E p \in Participants(match) : ratings[p] # history[p][1]
    /\ \E p \in DOMAIN ratings : p \notin Participants(match)

\* C7 (as stated): for every T >= 2 and alpha > 1, final_scores(1, T) is
\* exactly 1.
C7_TopScoresOne ==
    (pc = "fs_ret" /\ fs.pos = 1 /\ fs.no_pos >= 2) => fs.out[1] = fs.out[2]

\* C7 (amended): for alpha > 1, final_scores(1, T) is exactly 1 for T = 2;
\* for T >= 3 it is strictly between 0 and 1.
C7_TopScore ==
    (pc = "fs_ret" /\ fs.pos = 1 /\ fs.no_pos >= 2) =>
        IF fs.no_pos = 2
        THEN fs.out[1] = fs.out[2]
        ELSE 0 < fs.out[1] /\ fs.out[1] < fs.out[2]

C7_Witness ==
    /\ pc = "fs_ret"
    /\ fs.pos = 1
    /\ fs.no_pos = 3
    /\ fs.alpha = ALPHA
    /\ fs.out = <<15, 18>>

\* C8: winning_probability over fewer than 2 players (N = 0 or N = 1) fails
\* with an error, so a match with fewer than 2 participants makes the update
\* fail instead of producing ratings.
C8_DegenerateFails ==
    [][(CallStep /\ Participants(match') \subseteq DOMAIN ratings
                 /\ Cardinality(Participants(match')) < 2) =>
          (pc' = "crashed" /\ error' = "ZeroDivisionError")]_vars

\* C9: a registered player who is not in the recorded match has the same
\* current rating after the match as before it, and that value is the one
\* appended to the player's history.
C9_AbsentUnchanged ==
    (pc = "loop" /\ n >= 1 /\ Participants(match) # {}) =>
        \A p \in DOMAIN ratings \ Participants(match) :
            /\ self_ratings[p] = history[p][n]
            /\ history[p][n + 1] = self_ratings[p]

\* C10: for a match [[a], [b]] between two players of equal rating R, each
\* has expected win probability 0.5 and the update gives the winner R + 25
\* and the loser R - 25 before clamping.
C10_EqualPair ==
    [][\A a, b \in DOMAIN ratings :
          (/\ pc = "loop" /\ pc' = "assign"
           /\ a # b
           /\ match' = <<{a}, {b}>>
           /\ ratings[a] = ratings[b]) =>
             /\ winning_probability([p \in {a, b} |-> ratings[p]], DIFF).rv
                   = [p \in {a, b} |-> PS \div 2]
             /\ ret'[a] = ratings[a] + 25 * RS
             /\ ret'[b] = ratings[b] - 25 * RS]_vars

C10_Witness ==
    /\ pc = "assign"
    /\ n = 0
    /\ match = <<{"A"}, {"B"}>>
    /\ history["A"][1] = 1500 * RS
    /\ history["B"][1] = 1500 * RS
    /\ ret["A"] = 1525 * RS
    /\ ret["B"] = 1475 * RS

====
